---- MODULE Spec2Model ----
(***************************************************************************)
(* SpiralWaveformOp (tensorflow_mri/cc/kernels/traj_kernels.cc): a kernel   *)
(* object holding nine attributes, and its Compute method, which allocates  *)
(* a capacity-sized buffer, calls calculate_spiral_trajectory on it and     *)
(* returns the leading waveform_length rows.                                *)
(*                                                                         *)
(* calculate_spiral_trajectory lives in third_party/spiral_waveform, which  *)
(* is not part of the sources at hand.  It is modelled from the design in   *)
(* the specification (section 4.1) as an integer forward integrator: all    *)
(* physical quantities are integers in scaled units.                        *)
(***************************************************************************)
EXTENDS Integers, Sequences, FiniteSets

(* ------------------------------ bounds -------------------------------- *)

\* Rows of the working buffer in the model (the value of the capacity
\* constant is set in the third-party header; the model scales it down).
MaxCapacity == 4

\* Number of invocations of Compute on the kernel (run in any interleaving).
NumInvocations == 2

(* ----------------------------- constants ------------------------------ *)

SWF_MAX_WAVEFORM_SIZE == MaxCapacity

Invocations == 1 .. NumInvocations

\* Identities of the buffers the allocator can hand out.
BufferIds == 1 .. NumInvocations

NoBuffer == 0

\* An output slot that set_output has not filled.
NoOutput == [set |-> FALSE, rows |-> <<>>]

\* An output slot holding a tensor of the given rows.
OutputTensor(rows) == [set |-> TRUE, rows |-> rows]

Abs(x) == IF x < 0 THEN -x ELSE x

Min(x, y) == IF x < y THEN x ELSE y

Max(x, y) == IF x > y THEN x ELSE y

(* --------------------------- the attributes --------------------------- *)

AttrNames ==
  {"base_resolution", "spiral_arms", "field_of_view", "max_grad_ampl",
   "min_rise_time", "dwell_time", "readout_os", "gradient_delay",
   "larmor_const"}

\* The attributes the generator requires to be positive (readout_os >= 1);
\* gradient_delay may be signed.
PositiveAttrs == AttrNames \ {"gradient_delay"}

\* Attribute values that satisfy every input constraint.
ValidAttrs ==
  [base_resolution : {2, 4},
   spiral_arms     : {1, 2},
   field_of_view   : {1, 2},
   max_grad_ampl   : {2, 4},
   min_rise_time   : {1, 2},
   dwell_time      : {1},
   readout_os      : {1, 2},
   gradient_delay  : {-1, 0, 1},
   larmor_const    : {1}]

BaselineAttrs ==
  [base_resolution |-> 2, spiral_arms |-> 1, field_of_view |-> 1,
   max_grad_ampl |-> 4, min_rise_time |-> 1, dwell_time |-> 1,
   readout_os |-> 1, gradient_delay |-> 0, larmor_const |-> 1]

\* Attribute values that violate at least one input constraint: any
\* non-empty set of the constrained attributes set to zero, or one of them
\* negative.  The constructor accepts them all: GetAttr checks only that
\* the attribute exists and has the declared type.
InvalidAttrs ==
  {[f \in AttrNames |-> IF f \in S THEN 0 ELSE BaselineAttrs[f]] :
      S \in (SUBSET PositiveAttrs) \ {{}}}
  \cup {[BaselineAttrs EXCEPT ![f] = -1] : f \in PositiveAttrs}

AttrSpace == ValidAttrs \cup InvalidAttrs

(* ------------- calculate_spiral_trajectory (from the design) ---------- *)

\* A gradient sample (Gx, Gy).
Sample(gx, gy) == <<gx, gy>>

\* Input constraints of the generator: every parameter but gradient_delay
\* is positive, and readout_os is at least 1.
ArgsValid(a) ==
  /\ \A f \in PositiveAttrs : a[f] > 0
  /\ a.readout_os >= 1

\* Integration step: dwell_time on the oversampled grid (in half units).
TimeStep(a) == (2 * a.dwell_time) \div a.readout_os

\* Largest change of the gradient vector in one step: the slew limit
\* max_grad_ampl / min_rise_time times the step.
SlewStep(a) == (a.max_grad_ampl * TimeStep(a)) \div a.min_rise_time

\* The slew budget is split evenly over the two axes.
AxisStep(a) == SlewStep(a) \div 2

\* Target k-space radius, proportional to base_resolution / (2 field_of_view),
\* rounded up (it is positive for every valid parameter set).
TargetRadius(a) ==
  (4 * a.base_resolution + 2 * a.field_of_view - 1) \div (2 * a.field_of_view)

\* Direction of the spiral's tangent at step n: a quarter turn every two
\* samples.
Tangent(n) ==
  CASE (n \div 2) % 4 = 0 -> <<1, 0>>
    [] (n \div 2) % 4 = 1 -> <<0, 1>>
    [] (n \div 2) % 4 = 2 -> <<-1, 0>>
    [] OTHER              -> <<0, -1>>

\* x moved towards t by at most h.
Approach(x, t, h) == IF t > x THEN Min(x + h, t) ELSE Max(x - h, t)

\* The generator's locals when integration starts.
GenStart(a) == [a |-> a, n |-> 0, gx |-> 0, gy |-> 0, radius |-> 0]

\* One integration step: the gradient moves towards full amplitude along
\* the tangent, each axis within its slew budget, and the radius advances
\* by gamma |G| dt, scaled by the number of interleaves.
GenAdvance(g) ==
  LET a  == g.a
      t  == Tangent(g.n)
      gx == Approach(g.gx, a.max_grad_ampl * t[1], AxisStep(a))
      gy == Approach(g.gy, a.max_grad_ampl * t[2], AxisStep(a))
  IN  [g EXCEPT !.n = g.n + 1, !.gx = gx, !.gy = gy,
                !.radius = g.radius
                   + a.larmor_const * (Abs(gx) + Abs(gy)) * TimeStep(a)
                       * a.spiral_arms]

RadiusReached(g) == g.radius >= TargetRadius(g.a)

\* The loop condition: the target radius is not met and the sample
\* capacity is not exhausted.
IntegrationContinuesUnbounded(g) == ~RadiusReached(g)

IntegrationContinues(g) ==
  ~RadiusReached(g) /\ g.n < SWF_MAX_WAVEFORM_SIZE

\* The gradient delay as a shift by d samples of the first len rows, the
\* edge samples repeated; the length and the rows beyond len are unchanged.
DelayShift(rows, len, d) ==
  [k \in DOMAIN rows |->
     IF k <= len THEN rows[Max(1, Min(len, k - d))] ELSE rows[k]]

\* Result codes of the generator.
SWF_SUCCESS == 0

SWF_FAILURE == 1

\* The whole generator as a function of its arguments and of the buffer it
\* is handed: [result, length, rows].
RECURSIVE Integrate(_, _)
Integrate(g, rows) ==
  IF IntegrationContinues(g)
    THEN LET h == GenAdvance(g)
         IN  Integrate(h, [rows EXCEPT ![h.n] = Sample(h.gx, h.gy)])
    ELSE IF RadiusReached(g)
      THEN [result |-> SWF_SUCCESS, length |-> g.n,
            rows |-> DelayShift(rows, g.n, g.a.gradient_delay)]
      ELSE [result |-> SWF_FAILURE, length |-> g.n, rows |-> rows]

calculate_spiral_trajectory(a, rows) ==
  IF ArgsValid(a)
    THEN Integrate(GenStart(a), rows)
    ELSE [result |-> SWF_FAILURE, length |-> 0, rows |-> rows]

(* ------------------------ Tensor and allocator ------------------------ *)

\* What uninitialised rows of a freshly allocated buffer may hold.
GarbageLevel == 9

GarbageSamples == {Sample(0, 0), Sample(GarbageLevel, -GarbageLevel)}

\* allocate_temp hands every call a buffer of its own, which no other
\* tensor uses: the buffer of invocation i is named i.
AllocateTempShared(i) == 1

AllocateTemp(i) == i

\* Tensor::Slice(start, limit): rows start .. limit-1 along dimension 0, in
\* order (rows are numbered from 1 in the model).
SliceOneMore(rows, start, limit) ==
  [k \in 1 .. (Min(limit + 1, Len(rows)) - start) |-> rows[start + k]]

Slice(rows, start, limit) == [k \in 1 .. (limit - start) |-> rows[start + k]]

\* Slice CHECK-fails unless 0 <= start <= limit <= dim_size(0).
SliceInBounds(rows, start, limit) ==
  0 <= start /\ start <= limit /\ limit <= Len(rows)

\* OP_REQUIRES(ctx, result == 0, ...).
ResultAlwaysOk(result) == TRUE

ResultOk(result) == result = SWF_SUCCESS

\* The arguments of the call: int widened to long, float to double, both
\* value preserving.
GeneratorArgs(m) == [f \in AttrNames |-> m[f]]

(* ------------------------------- state -------------------------------- *)

VARIABLES
  attrs,            \* the kernel's nine attribute members
  pc,               \* where each invocation of Compute stands
  temp_waveform,    \* each invocation's temp tensor: the buffer it holds
  heap,             \* the rows of every buffer
  waveform_length,  \* each invocation's local waveform_length
  result,           \* each invocation's local result
  gen,              \* the generator's locals in each invocation
  output,           \* output 0 of each invocation
  status            \* the status of each invocation's context

vars ==
  <<attrs, pc, temp_waveform, heap, waveform_length, result, gen,
    output, status>>

NoLocals == [a |-> <<>>, n |-> 0, gx |-> 0, gy |-> 0, radius |-> 0]

\* The kernel has been constructed: the constructor stores the attributes
\* as given.  No invocation has started.
Init ==
  /\ attrs \in AttrSpace
  /\ pc = [i \in Invocations |-> "idle"]
  /\ temp_waveform = [i \in Invocations |-> NoBuffer]
  /\ heap = [b \in BufferIds |-> <<>>]
  /\ waveform_length = [i \in Invocations |-> 0]
  /\ result = [i \in Invocations |-> 0]
  /\ gen = [i \in Invocations |-> NoLocals]
  /\ output = [i \in Invocations |-> NoOutput]
  /\ status = [i \in Invocations |-> "OK"]

\* Compute, up to the call: allocate_temp fails and Compute returns with
\* the allocator's status, or it yields a buffer of SWF_MAX_WAVEFORM_SIZE
\* uninitialised rows; then waveform_length = 0.
Begin(i) ==
  /\ pc[i] = "idle"
  /\ \/ /\ status' = [status EXCEPT ![i] = "ResourceExhausted"]
        /\ pc' = [pc EXCEPT ![i] = "done"]
        /\ UNCHANGED <<temp_waveform, heap, waveform_length>>
     \/ \E junk \in GarbageSamples :
          LET b == AllocateTemp(i)
          IN  /\ temp_waveform' = [temp_waveform EXCEPT ![i] = b]
              /\ heap' = [heap EXCEPT
                            ![b] = [k \in 1 .. SWF_MAX_WAVEFORM_SIZE |-> junk]]
              /\ waveform_length' = [waveform_length EXCEPT ![i] = 0]
              /\ pc' = [pc EXCEPT ![i] = "called"]
              /\ UNCHANGED status
  /\ UNCHANGED <<attrs, result, gen, output>>

\* The generator is entered with the attributes as arguments and checks
\* its input constraints.
GenEnter(i) ==
  /\ pc[i] = "called"
  /\ LET a == GeneratorArgs(attrs)
     IN  IF ArgsValid(a)
           THEN /\ gen' = [gen EXCEPT ![i] = GenStart(a)]
                /\ pc' = [pc EXCEPT ![i] = "integrating"]
                /\ UNCHANGED result
           ELSE /\ result' = [result EXCEPT ![i] = SWF_FAILURE]
                /\ pc' = [pc EXCEPT ![i] = "returned"]
                /\ UNCHANGED gen
  /\ UNCHANGED <<attrs, temp_waveform, heap, waveform_length,
                 output, status>>

\* One pass of the integration loop: the next sample is recorded in the
\* buffer and counted in *waveform_length.  The write stays inside the
\* buffer.
GenStep(i) ==
  /\ pc[i] = "integrating"
  /\ IntegrationContinues(gen[i])
  /\ gen[i].n < Len(heap[temp_waveform[i]])
  /\ LET h == GenAdvance(gen[i])
         b == temp_waveform[i]
     IN  /\ gen' = [gen EXCEPT ![i] = h]
         /\ heap' = [heap EXCEPT ![b][h.n] = Sample(h.gx, h.gy)]
         /\ waveform_length' = [waveform_length EXCEPT ![i] = h.n]
  /\ UNCHANGED <<attrs, pc, temp_waveform, result, output, status>>

\* The loop has ended: with the radius reached the delay correction is
\* applied and the generator returns 0; otherwise the capacity is exhausted
\* and it returns non-zero, leaving what it wrote.
GenReturn(i) ==
  /\ pc[i] = "integrating"
  /\ ~IntegrationContinues(gen[i])
  /\ LET b == temp_waveform[i]
     IN  IF RadiusReached(gen[i])
           THEN /\ heap' = [heap EXCEPT
                              ![b] = DelayShift(heap[b], waveform_length[i],
                                                gen[i].a.gradient_delay)]
                /\ result' = [result EXCEPT ![i] = SWF_SUCCESS]
           ELSE /\ result' = [result EXCEPT ![i] = SWF_FAILURE]
                /\ UNCHANGED heap
  /\ pc' = [pc EXCEPT ![i] = "returned"]
  /\ UNCHANGED <<attrs, temp_waveform, waveform_length, gen,
                 output, status>>

\* Compute, after the call: OP_REQUIRES(result == 0) or an Internal error;
\* then the slice of the buffer becomes output 0.
Finish(i) ==
  /\ pc[i] = "returned"
  /\ IF ~ResultOk(result[i])
       THEN /\ status' = [status EXCEPT ![i] = "Internal"]
            /\ UNCHANGED output
       ELSE IF ~SliceInBounds(heap[temp_waveform[i]], 0, waveform_length[i])
         THEN /\ status' = [status EXCEPT ![i] = "Aborted"]
              /\ UNCHANGED output
         ELSE /\ output' = [output EXCEPT
                              ![i] = OutputTensor(
                                       Slice(heap[temp_waveform[i]], 0,
                                             waveform_length[i]))]
              /\ UNCHANGED status
  /\ pc' = [pc EXCEPT ![i] = "done"]
  /\ UNCHANGED <<attrs, temp_waveform, heap, waveform_length,
                 result, gen>>

Next ==
  \E i \in Invocations :
    \/ Begin(i)
    \/ GenEnter(i)
    \/ GenStep(i)
    \/ GenReturn(i)
    \/ Finish(i)

Spec == Init /\ [][Next]_vars

\* A step of invocation i after its start.
Run(i) == GenEnter(i) \/ GenStep(i) \/ GenReturn(i) \/ Finish(i)

(* ------------------------- auxiliary notions -------------------------- *)

Done(i) == pc[i] = "done"

\* The invocation got its buffer (allocate_temp succeeded).
Allocated(i) == temp_waveform[i] # NoBuffer

\* The invocation set output 0.
Returned(i) == output[i].set

\* The invocation's generator got past its input checks.
Integrated(i) == pc[i] \in {"integrating", "returned", "done"} /\ gen[i].a # <<>>

\* What an invocation ends with: its status and its output.
Outcome(i) == <<status[i], output[i]>>

SquaredNorm(gx, gy) == gx * gx + gy * gy

\* A buffer of zero rows, as a reference input for the generator.
ZeroRows == [k \in 1 .. SWF_MAX_WAVEFORM_SIZE |-> Sample(0, 0)]

(* ------------------------------ claims -------------------------------- *)

\* C1: whenever the generator has returned 0, the length it returned is
\* between 1 and the capacity, and a successful invocation's output has
\* exactly that many rows.
C1_LengthWithinCapacity ==
  \A i \in Invocations :
    /\ (pc[i] = "returned" /\ result[i] = 0) =>
         (1 <= waveform_length[i] /\ waveform_length[i] <= SWF_MAX_WAVEFORM_SIZE)
    /\ (Done(i) /\ status[i] = "OK") =>
         /\ result[i] = 0
         /\ 1 <= waveform_length[i]
         /\ waveform_length[i] <= SWF_MAX_WAVEFORM_SIZE
         /\ Returned(i)
         /\ Len(output[i].rows) = waveform_length[i]

C1_Witness ==
  \E i \in Invocations :
    Done(i) /\ status[i] = "OK" /\ Returned(i) /\ waveform_length[i] >= 3

\* C2: when the generator has returned non-zero, output 0 is never set and
\* the invocation ends with the Internal error, whatever the generator left
\* in the buffer and in waveform_length.
C2_FailureGivesNoOutput ==
  \A i \in Invocations :
    (pc[i] \in {"returned", "done"} /\ Allocated(i) /\ result[i] # 0) =>
      /\ ~Returned(i)
      /\ Done(i) => status[i] = "Internal"

C2_Witness ==
  \E i \in Invocations :
    /\ Done(i) /\ result[i] # 0 /\ status[i] = "Internal"
    /\ waveform_length[i] > 0
    /\ heap[temp_waveform[i]][1] \notin GarbageSamples

\* C3: an invocation whose integration ended without reaching the target
\* radius ends with the Internal error and no output; every output comes
\* from an integration that reached the target radius.
C3_NoTruncatedSuccess ==
  \A i \in Invocations :
    /\ (Done(i) /\ Integrated(i) /\ ~RadiusReached(gen[i])) =>
         (status[i] = "Internal" /\ ~Returned(i))
    /\ (Done(i) /\ Returned(i)) => (Integrated(i) /\ RadiusReached(gen[i]))

C3_Witness ==
  \E i \in Invocations :
    /\ Done(i) /\ Integrated(i) /\ ~RadiusReached(gen[i])
    /\ gen[i].n = SWF_MAX_WAVEFORM_SIZE /\ gen[i].radius > 0
    /\ status[i] = "Internal"

\* C4 as stated: an invocation whose attributes violate an input constraint
\* ends with the Internal error (the generator's failure) and no output.
C4_InvalidFailsInternal ==
  \A i \in Invocations :
    (Done(i) /\ ~ArgsValid(attrs)) => (status[i] = "Internal" /\ ~Returned(i))

\* C4 amended: an invocation whose attributes violate an input constraint
\* never sets output 0 and never ends OK: it ends with the Internal error
\* when its buffer was allocated, with the allocator's error otherwise.
C4_InvalidNeverSucceeds ==
  \A i \in Invocations :
    (Done(i) /\ ~ArgsValid(attrs)) =>
      /\ ~Returned(i)
      /\ status[i] = (IF Allocated(i) THEN "Internal" ELSE "ResourceExhausted")

C4_Witness ==
  \E i \in Invocations :
    /\ Done(i) /\ ~ArgsValid(attrs) /\ Allocated(i) /\ status[i] = "Internal"
    /\ attrs.readout_os < 1 /\ attrs.base_resolution > 0

\* The number of steps an invocation has left at most.
C5_Rank(i) ==
  CASE pc[i] = "idle"        -> SWF_MAX_WAVEFORM_SIZE + 4
    [] pc[i] = "called"      -> SWF_MAX_WAVEFORM_SIZE + 3
    [] pc[i] = "integrating" -> SWF_MAX_WAVEFORM_SIZE - gen[i].n + 2
    [] pc[i] = "returned"    -> 1
    [] OTHER                 -> 0

\* An invocation that has started and not returned can take a step.
C5_NotStuck ==
  \A i \in Invocations :
    /\ C5_Rank(i) >= 0
    /\ pc[i] \notin {"idle", "done"} => ENABLED Run(i)

\* Every step of an invocation brings it closer to its return.
C5_Progress ==
  \A i \in Invocations :
    <<pc[i], gen[i]>>' # <<pc[i], gen[i]>> => C5_Rank(i)' < C5_Rank(i)

\* C5: every invocation terminates: a started invocation can always take
\* its next step until it has returned, and it returns after at most
\* SWF_MAX_WAVEFORM_SIZE + 3 further steps, the integration loop taking at
\* most SWF_MAX_WAVEFORM_SIZE of them.
C5_Terminates == [](C5_NotStuck) /\ [][C5_Progress]_vars

C5_Witness ==
  \E i \in Invocations :
    Done(i) /\ Integrated(i) /\ gen[i].n = SWF_MAX_WAVEFORM_SIZE

\* What an invocation that runs alone ends with: the allocator's error, or
\* what the generator makes of the attributes.
AloneOutcomes(m) ==
  LET r == calculate_spiral_trajectory(GeneratorArgs(m), ZeroRows)
  IN  {<<"ResourceExhausted", NoOutput>>,
       IF r.result = 0
         THEN <<"OK", OutputTensor(SubSeq(r.rows, 1, r.length))>>
         ELSE <<"Internal", NoOutput>>}

\* Each finished invocation has an outcome it can end with when it runs
\* alone.
C6_StateOk ==
  \A i \in Invocations : Done(i) => Outcome(i) \in AloneOutcomes(attrs)

\* A step of an invocation writes only that invocation's buffer and locals,
\* never the stored attributes or anything of another invocation.
C6_StepOk ==
  /\ attrs' = attrs
  /\ \A i \in Invocations :
       pc'[i] # pc[i] \/ gen'[i] # gen[i] =>
         \A j \in Invocations \ {i} :
           /\ waveform_length'[j] = waveform_length[j]
           /\ result'[j] = result[j]
           /\ output'[j] = output[j]
           /\ Allocated(j) => heap'[temp_waveform[j]] = heap[temp_waveform[j]]

\* C6: under every interleaving, each invocation ends with an outcome it
\* can end with when it runs alone, and every step of an invocation writes
\* only that invocation's buffer and locals, never the stored attributes
\* or anything of another invocation.
C6_ConcurrentAsAlone == [](C6_StateOk) /\ [][C6_StepOk]_vars

C6_Witness ==
  \E i, j \in Invocations :
    /\ Done(i) /\ Returned(i) /\ Len(output[i].rows) >= 2
    /\ pc[j] = "integrating" /\ gen[j].n >= 1
    /\ heap[temp_waveform[j]][SWF_MAX_WAVEFORM_SIZE]
         # heap[temp_waveform[i]][SWF_MAX_WAVEFORM_SIZE]

\* C7 as stated: any two finished invocations of the kernel (identical
\* attributes) have the same outcome.
C7_SameOutcome ==
  \A i, j \in Invocations : (Done(i) /\ Done(j)) => Outcome(i) = Outcome(j)

\* C7 amended: any two finished invocations whose buffer was allocated have
\* the same outcome, whatever the buffers held when they were allocated.
C7_SameOutcomeOnceAllocated ==
  \A i, j \in Invocations :
    (Done(i) /\ Done(j) /\ Allocated(i) /\ Allocated(j)) =>
      Outcome(i) = Outcome(j)

C7_Witness ==
  \E i, j \in Invocations :
    /\ i # j /\ Done(i) /\ Done(j) /\ Returned(i) /\ Returned(j)
    /\ Len(output[i].rows) >= 2
    /\ heap[temp_waveform[i]] # heap[temp_waveform[j]]

\* C8: in every output, the change of the gradient vector between two
\* consecutive samples is at most the slew limit times the step.
C8_SlewWithinLimit ==
  \A i \in Invocations :
    Returned(i) =>
      \A k \in 1 .. (Len(output[i].rows) - 1) :
        LET p == output[i].rows[k]
            q == output[i].rows[k + 1]
        IN  SquaredNorm(q[1] - p[1], q[2] - p[2])
              <= SlewStep(attrs) * SlewStep(attrs)

C8_Witness ==
  \E i \in Invocations :
    /\ Returned(i) /\ attrs.gradient_delay # 0
    /\ \E k \in 1 .. (Len(output[i].rows) - 1) :
         /\ output[i].rows[k][1] # output[i].rows[k + 1][1]
         /\ output[i].rows[k][2] # output[i].rows[k + 1][2]

\* C9: in every output, every sample's magnitude is at most max_grad_ampl.
C9_AmplitudeWithinLimit ==
  \A i \in Invocations :
    Returned(i) =>
      \A k \in 1 .. Len(output[i].rows) :
        SquaredNorm(output[i].rows[k][1], output[i].rows[k][2])
          <= attrs.max_grad_ampl * attrs.max_grad_ampl

C9_Witness ==
  \E i \in Invocations :
    /\ Returned(i)
    /\ \E k \in 1 .. Len(output[i].rows) :
         SquaredNorm(output[i].rows[k][1], output[i].rows[k][2])
           = attrs.max_grad_ampl * attrs.max_grad_ampl
    /\ \E k \in 1 .. Len(output[i].rows) :
         output[i].rows[k][1] # 0 /\ output[i].rows[k][2] # 0

\* C10: the buffer has SWF_MAX_WAVEFORM_SIZE rows of two columns from its
\* allocation on, and the output is its rows 0 .. L-1, in order, unaltered,
\* the rows from L on left out.
C10_OutputIsLeadingRows ==
  \A i \in Invocations :
    /\ Allocated(i) =>
         /\ Len(heap[temp_waveform[i]]) = SWF_MAX_WAVEFORM_SIZE
         /\ \A k \in 1 .. SWF_MAX_WAVEFORM_SIZE :
              Len(heap[temp_waveform[i]][k]) = 2
    /\ Returned(i) =>
         /\ Len(output[i].rows) = waveform_length[i]
         /\ \A k \in 1 .. waveform_length[i] :
              output[i].rows[k] = heap[temp_waveform[i]][k]

C10_Witness ==
  \E i \in Invocations :
    /\ Returned(i)
    /\ waveform_length[i] >= 2
    /\ waveform_length[i] < SWF_MAX_WAVEFORM_SIZE
    /\ output[i].rows[1] # output[i].rows[2]
    /\ heap[temp_waveform[i]][SWF_MAX_WAVEFORM_SIZE]
         = Sample(GarbageLevel, -GarbageLevel)

====
